---------------------------- MODULE Spec2Model ----------------------------
(***************************************************************************)
(* bevy_simple_prefs: a PreferenceSet (a struct deriving Prefs) whose      *)
(* fields live as separate Bevy resources, are loaded once at startup by a *)
(* background task and are saved by a background task whenever the         *)
(* per-tick `save` system sees a changed field.                            *)
(*                                                                         *)
(* Texts are sequences of RON tokens.  A PreferenceSet value is a function *)
(* from field names to values; every value is written as its RON token.   *)
(*                                                                         *)
(* Change detection: `save` is the only reader of the fields' change       *)
(* ticks, so a tick is kept as what it means to `save`: changed[f] (added  *)
(* [f]) is TRUE iff f's changed (added) tick is newer than the last run of *)
(* `save`.  Before the first run of a system every tick is newer.          *)
(***************************************************************************)
EXTENDS Naturals, Sequences, FiniteSets, Bags, TLC

VARIABLES
    pc,          \* the system the main schedule runs next
    fields,      \* the field resources in the World: field name -> value
    changed,     \* field name -> is_changed() as the next run of `save` sees it
    added,       \* field name -> is_added() as the next run of `save` sees it
    loaded,      \* PrefsStatus<T>.loaded
    store,       \* the persisted record: [present, data], and whether this run wrote it
    loadTask,    \* the entity holding LoadPrefsTask and the task behind it
    saveTasks,   \* bag of the snapshots held by detached save tasks in flight
    appliedTick, \* history: the load batch applied in this tick, until `save` has run
    lastSave,    \* history: what the run of `save` or the save task that just ended did
    newest,      \* history: the save task spawned last, while save tasks are in flight
    codec,       \* the codec harness: one call of serialize / deserialize
    \* an app with two PreferenceSets (examples/multiple.rs):
    settings,    \* set -> PrefsSettings<T>: path and local_storage_key
    resources,   \* set -> its field resource: [value, changed, added]
    status,      \* set -> PrefsStatus<T>.loaded
    tasks,       \* set -> its LoadPrefsTask entity and the task behind it
    commands,    \* sets whose command queue was polled and is not applied yet
    files,       \* path -> the file's record
    detached,    \* bag of the save tasks in flight: [set, snap, path]
    ran,         \* the Update systems that have run in the current tick
    crashed      \* a system has panicked

\* the state of the app with two PreferenceSets
multiVars == <<settings, resources, status, tasks, commands, files, detached, ran,
               crashed>>

vars == <<pc, fields, changed, added, loaded, store, loadTask, saveTasks,
          appliedTick, lastSave, newest, codec, multiVars>>

---------------------------------------------------------------------------
(* The PreferenceSet of the model: three fields, so that a field can be    *)
(* first, middle or last in declaration order.                             *)

\* struct ExamplePrefs { volume: Volume, difficulty: Difficulty, enabled: Enabled }
FieldOrder == <<"volume", "difficulty", "enabled">>

FieldSet == {FieldOrder[i] : i \in 1..Len(FieldOrder)}

\* Volume(u32) and Enabled(bool) are newtype structs, Difficulty is an enum
IsNewtype(f) == f \in {"volume", "enabled"}

\* the values of each field the model ranges over
FieldValues(f) ==
    CASE f = "volume"     -> {"50", "60"}
      [] f = "difficulty" -> {"Normal", "Hard"}
      [] f = "enabled"    -> {"false", "true"}

\* impl Default for Volume / Difficulty; #[derive(Default)] for Enabled
DefaultValue(f) ==
    CASE f = "volume"     -> "50"
      [] f = "difficulty" -> "Normal"
      [] f = "enabled"    -> "false"

\* T::default()
DefaultPrefs == [f \in FieldSet |-> DefaultValue(f)]

AllValues == UNION {FieldValues(f) : f \in FieldSet}

PrefsValues == {v \in [FieldSet -> AllValues] : \A f \in FieldSet : v[f] \in FieldValues(f)}

\* the identifier and the type path of the PreferenceSet type
TypeIdent == "ExamplePrefs"
TypePath == "\"prefs::ExamplePrefs\""

---------------------------------------------------------------------------
(* ReflectionCodec                                                         *)

\* RON of one field value: a newtype struct is (v), an enum variant is v
ValueTokens(f, v) == IF IsNewtype(f) THEN <<"(", v, ")">> ELSE <<v>>

\* the fields of `present`, in declaration order from field i on, as
\* `name: value,` entries
RECURSIVE StructEntries(_, _, _)
StructEntries(val, present, i) ==
    IF i > Len(FieldOrder) THEN <<>>
    ELSE (IF FieldOrder[i] \in present
          THEN <<FieldOrder[i], ":">> \o ValueTokens(FieldOrder[i], val[FieldOrder[i]]) \o <<",">>
          ELSE <<>>)
         \o StructEntries(val, present, i + 1)

\* mutant of serialize: the map keyed by the type path that ReflectSerializer writes
serialize_untyped(to_save) ==
    <<"{", TypePath, ":", "(">> \o StructEntries(to_save, FieldSet, 1) \o <<")", ",", "}">>

\* serialize: TypedReflectSerializer + PrettyConfig::default(): the struct
\* itself, every field in declaration order, no struct name
serialize(to_save) ==
    <<"(">> \o StructEntries(to_save, FieldSet, 1) \o <<")">>

\* the save task's encoder: ReflectSerializer (untyped) writes a map with
\* one entry, from the type path to the struct
ReflectSerialize(to_save) ==
    <<"{", TypePath, ":">> \o serialize(to_save) \o <<",", "}">>

Tok(t, i) == IF i \in 1..Len(t) THEN t[i] ELSE "<eof>"

\* ron::Deserializer::from_str fails before any value is parsed: the leading
\* whitespace/comment skip hits an unclosed block comment, or the text opens
\* with `#` that is no `#![enable(...)]` attribute
FromStrFails(t) == Tok(t, 1) \in {"/*", "#"}

NoValue == "<none>"
NoFields == [f \in FieldSet |-> NoValue]

ParseErr == [ok |-> FALSE, v |-> NoValue, next |-> 0]

\* TypedReflectDeserializer on the registration of field f's type
DeserializeValue(f, t, i) ==
    IF IsNewtype(f)
    THEN IF Tok(t, i) = "(" /\ Tok(t, i + 1) \in FieldValues(f) /\ Tok(t, i + 2) = ")"
         THEN [ok |-> TRUE, v |-> t[i + 1], next |-> i + 3]
         ELSE ParseErr
    ELSE IF Tok(t, i) \in FieldValues(f)
         THEN [ok |-> TRUE, v |-> t[i], next |-> i + 1]
         ELSE ParseErr

StructErr == [ok |-> FALSE, dyn |-> NoFields]

\* StructVisitor::visit_map over ron's CommaSeparated: entries `key: value`
\* separated by commas up to `)`; an unknown key is an error, a repeated key
\* overwrites, a missing key is simply not in the DynamicStruct
RECURSIVE VisitStruct(_, _, _, _)
VisitStruct(t, i, dyn, had_comma) ==
    IF Tok(t, i) = ")" THEN [ok |-> TRUE, dyn |-> dyn]
    ELSE IF ~had_comma THEN StructErr
    ELSE IF Tok(t, i) \notin FieldSet THEN StructErr
    ELSE IF Tok(t, i + 1) # ":" THEN StructErr
    ELSE LET r == DeserializeValue(t[i], t, i + 2)
         IN  IF ~r.ok THEN StructErr
             ELSE LET comma == Tok(t, r.next) = ","
                  IN  VisitStruct(t, IF comma THEN r.next + 1 ELSE r.next,
                                  [dyn EXCEPT ![t[i]] = r.v], comma)

\* mutant of apply_dynamic: a record that lacks a field is rejected as a whole
\* (every field falls back to its default)
apply_dynamic_all_or_nothing(dyn) ==
    IF \A f \in FieldSet : dyn[f] # NoValue THEN dyn ELSE DefaultPrefs

\* let mut val = T::default(); val.apply(&*dynamic_struct)
apply_dynamic(dyn) ==
    [f \in FieldSet |-> IF dyn[f] # NoValue THEN dyn[f] ELSE DefaultValue(f)]

\* deserialize: "Panic" is the unwrap of from_str's error, "Err" the `?` on
\* the reflect deserializer's error; trailing text is not looked at
deserialize(serialized) ==
    IF FromStrFails(serialized) THEN [kind |-> "Panic", val |-> DefaultPrefs]
    ELSE LET i0 == IF Tok(serialized, 1) = TypeIdent THEN 2 ELSE 1
         IN  IF Tok(serialized, i0) # "("
             THEN [kind |-> "Err", val |-> DefaultPrefs]
             ELSE LET r == VisitStruct(serialized, i0 + 1, NoFields, TRUE)
                  IN  IF r.ok
                      THEN [kind |-> "Ok", val |-> apply_dynamic(r.dyn)]
                      ELSE [kind |-> "Err", val |-> DefaultPrefs]

---------------------------------------------------------------------------
(* Storage backend and the state after registration                        *)

\* `fresh` is history: the record was written by the running process
NoRecord == [present |-> FALSE, data |-> <<>>, fresh |-> FALSE]

Record(text) == [present |-> TRUE, data |-> text, fresh |-> FALSE]

\* the records the first run may find: none; one written by `serialize`; one
\* holding a single field; one cut off inside a value (the reflect
\* deserializer fails); one opening with an unclosed block comment (from_str
\* fails)
InitialRecords ==
    { NoRecord,
      Record(serialize([volume |-> "60", difficulty |-> "Hard", enabled |-> "true"])),
      Record(<<"(", "difficulty", ":", "Hard", ",", ")">>),
      Record(<<"(", "volume", ":", "(">>),
      Record(<<"/*", "volume">>) }

\* load_str: std::fs::read_to_string(path).ok()
load_str(st) == [some |-> st.present, text |-> st.data]

\* save_str: std::fs::write(path, data)
save_str(data) == [present |-> TRUE, data |-> data, fresh |-> TRUE]

\* no LoadPrefsTask entity: not spawned yet ("Idle"), or despawned ("Applied")
\* (`old` is history: the record read was left by an earlier run)
NoTask == [state |-> "Idle", some |-> FALSE, text |-> <<>>, old |-> FALSE,
           val |-> DefaultPrefs]

NoBatch == [applied |-> FALSE, some |-> FALSE, text |-> <<>>, old |-> FALSE,
            val |-> DefaultPrefs]

\* the batch of the task, as applied
Batch(task) == [applied |-> TRUE, some |-> task.some, text |-> task.text,
                old |-> task.old, val |-> task.val]

\* `write`: the save task that just ended failed to write ("failed"), or
\* wrote after the task spawned last had written ("out_of_order")
NoSave == [ran |-> FALSE, first |-> FALSE, changed |-> {}, applied |-> FALSE,
           spawned |-> 0, write |-> "none"]

\* no save task in flight.  While the task spawned last is in flight `snap`
\* is its snapshot; once it has ended, `wrote` tells whether it has written
NoNewest == [snap |-> NoFields, wrote |-> FALSE]

CodecIdle == [stage |-> "idle", value |-> DefaultPrefs, present |-> FieldSet,
              text |-> <<>>, result |-> [kind |-> "None", val |-> DefaultPrefs]]

\* the bound on the save tasks in flight beyond which the host stops mutating
MaxInFlight == 1

\* the two PreferenceSets of examples/multiple.rs, one field each
SetNames == {"ExamplePrefs", "ExampleStats"}

\* struct ExamplePrefs { enabled: Enabled }, struct ExampleStats { launches: Launches }
FieldOf(T) == IF T = "ExamplePrefs" THEN "enabled" ELSE "launches"

\* Enabled(bool), Launches(u32): the values the model ranges over
ValuesOf(T) == IF T = "ExamplePrefs" THEN {"false", "true"} ELSE {"0", "1"}

\* #[derive(Default)]
DefaultOf(T) == IF T = "ExamplePrefs" THEN "false" ELSE "0"

\* T::crate_name(): both types are declared in the crate of the example
crate_name(T) == "multiple"

\* T::short_type_path()
short_type_path(T) == T

\* PrefsPlugin::<T>::default(): texts are kept as the pieces format! joins
PrefsPluginDefault(T) ==
    [path |-> <<crate_name(T), "_prefs.ron">>,
     local_storage_key |-> <<crate_name(T), "::", short_type_path(T), ".ron">>]

\* the plugins as main() of examples/multiple.rs adds them: the path of
\* ExampleStats is set, everything else is left at its default
ExampleSettings ==
    [T \in SetNames |->
        IF T = "ExampleStats"
        THEN [PrefsPluginDefault(T) EXCEPT !.path = <<"multiple_stats.ron">>]
        ELSE PrefsPluginDefault(T)]

\* every plugin left at its default settings
DefaultSettings == [T \in SetNames |-> PrefsPluginDefault(T)]

PathSet == {ExampleSettings[T].path : T \in SetNames}
              \cup {DefaultSettings[T].path : T \in SetNames}

\* the record `serialize` writes for set T holding v
TypedRecord(T, v) == <<"(", FieldOf(T), ":", "(", v, ")", ",", ")">>

\* the record the save task writes (ReflectSerializer) for set T holding v
ReflectRecord(T, v) == <<"{", T, ":">> \o TypedRecord(T, v) \o <<",", "}">>

NoFile == [present |-> FALSE, data |-> <<>>]

NoFiles == [p \in PathSet |-> NoFile]

\* every path that is in use holds a record of the set stored there (of the
\* first such set where two sets share a path)
OldFiles ==
    [p \in PathSet |->
        IF p = <<"multiple_stats.ron">>
        THEN [present |-> TRUE, data |-> TypedRecord("ExampleStats", "1")]
        ELSE [present |-> TRUE, data |-> TypedRecord("ExamplePrefs", "true")]]

\* the Update systems the two plugins add: each plugin adds its own instance
\* of handle_tasks, chained before its `save`
UpdateSystems == {"handle_tasks", "save"} \X SetNames

\* PrefsPlugin::<T>::build for both sets, with the given settings
multi_build(cfg, fs) ==
    /\ settings = cfg
    /\ resources = [T \in SetNames |->
                       [value |-> DefaultOf(T), changed |-> TRUE, added |-> TRUE]]
    /\ status = [T \in SetNames |-> FALSE]
    /\ tasks = [T \in SetNames |-> [state |-> "Idle", val |-> DefaultOf(T)]]
    /\ commands = {}
    /\ files = fs
    /\ detached = EmptyBag
    /\ ran = {}
    /\ crashed = FALSE

\* PrefsPlugin::build: PrefsStatus with loaded = false, Prefs::init installs
\* every field's default; nothing has run yet, so every resource is both
\* changed and added for the first run of `save`
build(st) ==
    /\ pc = "Startup"
    /\ fields = DefaultPrefs
    /\ changed = [f \in FieldSet |-> TRUE]
    /\ added = [f \in FieldSet |-> TRUE]
    /\ loaded = FALSE
    /\ store = st
    /\ loadTask = NoTask
    /\ saveTasks = EmptyBag
    /\ appliedTick = NoBatch
    /\ lastSave = NoSave
    /\ newest = NoNewest

Init ==
    /\ \E st \in InitialRecords : build(st)
    /\ codec = CodecIdle
    /\ multi_build(ExampleSettings, NoFiles)

---------------------------------------------------------------------------
(* AsyncLoadPipeline                                                       *)

\* mutant of load: the system is added to Update as well, so a set whose
\* task is gone starts another load
load_in_update ==
    /\ \/ pc = "Startup"
       \/ pc = "handle_tasks" /\ loadTask.state = "Applied"
    /\ loadTask' = [NoTask EXCEPT !.state = "Running"]
    /\ pc' = "handle_tasks"
    /\ lastSave' = NoSave
    /\ UNCHANGED <<fields, changed, added, loaded, store, saveTasks, appliedTick, newest,
                   codec, multiVars>>

\* Prefs::load (Startup schedule): spawn the entity and the background task
load ==
    /\ pc = "Startup"
    /\ loadTask' = [NoTask EXCEPT !.state = "Running"]
    /\ pc' = "handle_tasks"
    /\ lastSave' = NoSave
    /\ UNCHANGED <<fields, changed, added, loaded, store, saveTasks, appliedTick, newest,
                   codec, multiVars>>

\* the value the load task's closure yields for what load_str returned
\* (never reached with a text on which deserialize panics)
LoadVal(read) ==
    IF ~read.some THEN DefaultPrefs
    ELSE LET r == deserialize(read.text)
         IN  IF r.kind = "Ok" THEN r.val ELSE DefaultPrefs

\* mutant of load_task: a missing record is treated as a failure of the task
load_task_absent_fails ==
    /\ loadTask.state = "Running"
    /\ LET read == load_str(store)
       IN  loadTask' =
             IF ~read.some \/ deserialize(read.text).kind = "Panic"
             THEN [state |-> "Panicked", some |-> read.some, text |-> read.text,
                   old |-> ~store.fresh, val |-> DefaultPrefs]
             ELSE [state |-> "Completed", some |-> read.some, text |-> read.text,
                   old |-> read.some /\ ~store.fresh, val |-> LoadVal(read)]
    /\ lastSave' = NoSave
    /\ UNCHANGED <<pc, fields, changed, added, loaded, store, saveTasks,
                   appliedTick, newest, codec, multiVars>>

\* mutant of load_task: the task writes the resources and the status itself
\* instead of handing back a command queue
load_task_writes_world ==
    /\ loadTask.state = "Running"
    /\ LET read == load_str(store)
       IN  /\ loadTask' =
                 IF read.some /\ deserialize(read.text).kind = "Panic"
                 THEN [state |-> "Panicked", some |-> TRUE, text |-> read.text,
                       old |-> ~store.fresh, val |-> DefaultPrefs]
                 ELSE [state |-> "Completed", some |-> read.some, text |-> read.text,
                       old |-> read.some /\ ~store.fresh, val |-> LoadVal(read)]
           /\ IF loadTask'.state = "Completed"
              THEN fields' = LoadVal(read) /\ loaded' = TRUE
              ELSE UNCHANGED <<fields, loaded>>
    /\ lastSave' = NoSave
    /\ UNCHANGED <<pc, changed, added, store, saveTasks, appliedTick, newest, codec,
                   multiVars>>

\* the body of the background load task: read, decode, build the command
\* queue; a panic of deserialize ends the task without a result
load_task ==
    /\ loadTask.state = "Running"
    /\ LET read == load_str(store)
       IN  loadTask' =
             IF read.some /\ deserialize(read.text).kind = "Panic"
             THEN [state |-> "Panicked", some |-> TRUE, text |-> read.text,
                   old |-> ~store.fresh, val |-> DefaultPrefs]
             ELSE [state |-> "Completed", some |-> read.some, text |-> read.text,
                   old |-> read.some /\ ~store.fresh, val |-> LoadVal(read)]
    /\ lastSave' = NoSave
    /\ UNCHANGED <<pc, fields, changed, added, loaded, store, saveTasks,
                   appliedTick, newest, codec, multiVars>>

\* mutant of handle_tasks: the status is flipped when the task is polled,
\* before its command queue is applied
handle_tasks_sets_loaded ==
    /\ pc = "handle_tasks"
    /\ pc' = "apply_deferred"
    /\ loadTask' = IF loadTask.state = "Completed"
                   THEN [loadTask EXCEPT !.state = "Polled"] ELSE loadTask
    /\ loaded' = (loaded \/ loadTask.state = "Completed")
    /\ lastSave' = NoSave
    /\ UNCHANGED <<fields, changed, added, store, saveTasks, appliedTick, newest,
                   codec, multiVars>>

\* mutant of handle_tasks: `save` is not ordered after the sync point, it
\* runs right after the poll with the command queue still pending
handle_tasks_no_sync ==
    /\ pc = "handle_tasks"
    /\ pc' = IF loadTask.state = "Panicked" THEN "crashed"
             ELSE IF loadTask.state = "Completed" THEN "save" ELSE "apply_deferred"
    /\ loadTask' = IF loadTask.state = "Completed"
                   THEN [loadTask EXCEPT !.state = "Polled"] ELSE loadTask
    /\ lastSave' = NoSave
    /\ UNCHANGED <<fields, changed, added, loaded, store, saveTasks, appliedTick, newest,
                   codec, multiVars>>

\* handle_tasks (Update): poll_once on every LoadPrefsTask; a finished task's
\* command queue is appended to this system's Commands; polling a task that
\* panicked panics in turn
handle_tasks ==
    /\ pc = "handle_tasks"
    /\ pc' = IF loadTask.state = "Panicked" THEN "crashed" ELSE "apply_deferred"
    /\ loadTask' = IF loadTask.state = "Completed"
                   THEN [loadTask EXCEPT !.state = "Polled"] ELSE loadTask
    /\ lastSave' = NoSave
    /\ UNCHANGED <<fields, changed, added, loaded, store, saveTasks, appliedTick, newest,
                   codec, multiVars>>

\* mutant of apply_deferred: a field the host has written since the last
\* run of `save` keeps the host's value
apply_deferred_keeps_host_writes ==
    /\ pc = "apply_deferred"
    /\ pc' = "save"
    /\ IF loadTask.state = "Polled"
       THEN /\ fields' = [f \in FieldSet |->
                             IF changed[f] /\ ~added[f] THEN fields[f]
                             ELSE loadTask.val[f]]
            /\ changed' = [f \in FieldSet |-> TRUE]
            /\ loaded' = TRUE
            /\ loadTask' = [NoTask EXCEPT !.state = "Applied"]
            /\ appliedTick' = Batch(loadTask)
       ELSE UNCHANGED <<fields, changed, loaded, loadTask, appliedTick>>
    /\ lastSave' = NoSave
    /\ UNCHANGED <<added, store, saveTasks, newest, codec, multiVars>>

\* mutant of apply_deferred: only the first field's insert is applied
\* before the status flips
apply_deferred_first_field ==
    /\ pc = "apply_deferred"
    /\ pc' = "save"
    /\ IF loadTask.state = "Polled"
       THEN /\ fields' = [fields EXCEPT ![FieldOrder[1]] = loadTask.val[FieldOrder[1]]]
            /\ changed' = [changed EXCEPT ![FieldOrder[1]] = TRUE]
            /\ loaded' = TRUE
            /\ loadTask' = [NoTask EXCEPT !.state = "Applied"]
            /\ appliedTick' = Batch(loadTask)
       ELSE UNCHANGED <<fields, changed, loaded, loadTask, appliedTick>>
    /\ lastSave' = NoSave
    /\ UNCHANGED <<added, store, saveTasks, newest, codec, multiVars>>

\* the sync point of (handle_tasks, save).chain(): the queued closure runs:
\* world.insert_resource(val.field) for every field (an insert over an
\* existing resource marks it changed, not added), loaded = true, despawn
apply_deferred ==
    /\ pc = "apply_deferred"
    /\ pc' = "save"
    /\ IF loadTask.state = "Polled"
       THEN /\ fields' = loadTask.val
            /\ changed' = [f \in FieldSet |-> TRUE]
            /\ loaded' = TRUE
            /\ loadTask' = [NoTask EXCEPT !.state = "Applied"]
            /\ appliedTick' = Batch(loadTask)
       ELSE UNCHANGED <<fields, changed, loaded, loadTask, appliedTick>>
    /\ lastSave' = NoSave
    /\ UNCHANGED <<added, store, saveTasks, newest, codec, multiVars>>

---------------------------------------------------------------------------
(* SaveTrigger and AsyncSavePipeline                                       *)

\* mutant of field_checks: is_added() is not looked at
field_checks_no_added ==
    \A f \in FieldSet : ~changed[f]

\* mutant of field_checks: the negation of is_changed() is lost
field_checks_no_negation ==
    \A f \in FieldSet : changed[f] \/ added[f]

\* the condition of the early return of `save`, as the macro expands it: the
\* per-field checks `!f.is_changed() || f.is_added()` are joined by `&&`
\* with no parentheses around them, and `&&` binds tighter than `||`:
\*   !c1 || (a1 && !c2) || (a2 && !c3) || a3
field_checks ==
    \/ ~changed[FieldOrder[1]]
    \/ \E i \in 1..(Len(FieldOrder) - 1) :
          added[FieldOrder[i]] /\ ~changed[FieldOrder[i + 1]]
    \/ added[FieldOrder[Len(FieldOrder)]]

\* mutant of to_save: one task per changed field instead of one per run
to_save_per_field ==
    [v \in {fields} |-> Cardinality({f \in FieldSet : changed[f]})]

\* the tasks one run of `save` spawns when it does not return early: one
\* task, holding a clone of every field's current value
to_save == SetToBag({fields})

\* Prefs::save (Update, after handle_tasks and its sync point); the system's
\* last-run tick moves on, so nothing stays changed or added for its next run
save ==
    /\ pc = "save"
    /\ pc' = "handle_tasks"
    /\ saveTasks' = IF field_checks THEN saveTasks ELSE saveTasks (+) to_save
    /\ changed' = [f \in FieldSet |-> FALSE]
    /\ added' = [f \in FieldSet |-> FALSE]
    /\ lastSave' = [ran |-> TRUE,
                    first |-> \A f \in FieldSet : added[f],
                    changed |-> {f \in FieldSet : changed[f]},
                    applied |-> appliedTick.applied,
                    spawned |-> BagCardinality(saveTasks') - BagCardinality(saveTasks),
                    write |-> "none"]
    /\ newest' = IF saveTasks' = saveTasks THEN newest
                  ELSE [snap |-> fields, wrote |-> FALSE]
    /\ appliedTick' = NoBatch
    /\ UNCHANGED <<fields, loaded, store, loadTask, codec, multiVars>>

\* the task holding `snap` is the one spawned last (of tasks holding equal
\* snapshots the older is taken to end first: they write the same record)
IsNewest(snap) ==
    newest.snap = snap /\ CopiesIn(snap, saveTasks) = 1

\* the task holding `snap` changes the record after the task spawned last
\* has written
OutOfOrder(snap) ==
    newest.wrote /\ ReflectSerialize(snap) # store.data

\* mutant of save_task: a task whose write failed is spawned again
save_task_retries(snap, ok) ==
    /\ BagIn(snap, saveTasks)
    /\ saveTasks' = IF ok THEN saveTasks (-) SetToBag({snap}) ELSE saveTasks
    /\ store' = IF ok THEN save_str(ReflectSerialize(snap)) ELSE store
    /\ lastSave' = [NoSave EXCEPT !.write =
                       IF ~ok THEN "failed"
                       ELSE IF OutOfOrder(snap) THEN "out_of_order"
                       ELSE "none"]
    /\ newest' = IF saveTasks' = EmptyBag THEN NoNewest
                  ELSE IF IsNewest(snap) THEN [snap |-> NoFields, wrote |-> ok]
                  ELSE newest
    /\ UNCHANGED <<pc, fields, changed, added, loaded, loadTask, appliedTick, codec,
                   multiVars>>

\* mutant of save_task: the tasks are coordinated, a task does not write once
\* the task spawned last has written
save_task_newest_wins(snap, ok) ==
    /\ BagIn(snap, saveTasks)
    /\ saveTasks' = saveTasks (-) SetToBag({snap})
    /\ store' = IF ok /\ ~newest.wrote
                THEN save_str(ReflectSerialize(snap)) ELSE store
    /\ lastSave' = [NoSave EXCEPT !.write =
                       IF ~ok THEN "failed"
                       ELSE IF OutOfOrder(snap) THEN "out_of_order"
                       ELSE "none"]
    /\ newest' = IF saveTasks' = EmptyBag THEN NoNewest
                  ELSE IF IsNewest(snap) THEN [snap |-> NoFields, wrote |-> ok]
                  ELSE newest
    /\ UNCHANGED <<pc, fields, changed, added, loaded, loadTask, appliedTick, codec,
                   multiVars>>

\* the body of a detached save task holding `snap`: encode with
\* ReflectSerializer, then save_str; a failed write is logged and dropped.
\* Nothing orders the tasks: whichever runs save_str last leaves its record.
save_task(snap, ok) ==
    /\ BagIn(snap, saveTasks)
    /\ saveTasks' = saveTasks (-) SetToBag({snap})
    /\ store' = IF ok THEN save_str(ReflectSerialize(snap)) ELSE store
    /\ lastSave' = [NoSave EXCEPT !.write =
                       IF ~ok THEN "failed"
                       ELSE IF OutOfOrder(snap) THEN "out_of_order"
                       ELSE "none"]
    /\ newest' = IF saveTasks' = EmptyBag THEN NoNewest
                  ELSE IF IsNewest(snap) THEN [snap |-> NoFields, wrote |-> ok]
                  ELSE newest
    /\ UNCHANGED <<pc, fields, changed, added, loaded, loadTask, appliedTick, codec,
                   multiVars>>

\* a host system writing a field through ResMut (toggle_enabled,
\* volume_buttons, ...), at any point of a tick
host_mutation(f, v) ==
    /\ pc \in {"handle_tasks", "apply_deferred", "save"}
    /\ BagCardinality(saveTasks) < MaxInFlight
    /\ fields' = [fields EXCEPT ![f] = v]
    /\ changed' = [changed EXCEPT ![f] = TRUE]
    /\ lastSave' = NoSave
    /\ UNCHANGED <<pc, added, loaded, store, loadTask, saveTasks, appliedTick, newest,
                   codec, multiVars>>

\* the process ends (tasks in flight are abandoned) and the application is
\* started again against the record as it is
restart ==
    /\ pc # "Startup"
    /\ pc' = "Startup"
    /\ fields' = DefaultPrefs
    /\ changed' = [f \in FieldSet |-> TRUE]
    /\ added' = [f \in FieldSet |-> TRUE]
    /\ loaded' = FALSE
    /\ loadTask' = NoTask
    /\ saveTasks' = EmptyBag
    /\ appliedTick' = NoBatch
    /\ lastSave' = NoSave
    /\ newest' = NoNewest
    /\ store' = [store EXCEPT !.fresh = FALSE]
    /\ UNCHANGED <<codec, multiVars>>

Next ==
    \/ load
    \/ load_task
    \/ handle_tasks
    \/ apply_deferred
    \/ save
    \/ \E snap \in PrefsValues, ok \in BOOLEAN : save_task(snap, ok)
    \/ \E f \in FieldSet : \E v \in FieldValues(f) : host_mutation(f, v)
    \/ restart

Spec == Init /\ [][Next]_vars

\* one run of the application, from registration on
RunNext ==
    \/ load
    \/ load_task
    \/ handle_tasks
    \/ apply_deferred
    \/ save
    \/ \E snap \in PrefsValues, ok \in BOOLEAN : save_task(snap, ok)
    \/ \E f \in FieldSet : \E v \in FieldValues(f) : host_mutation(f, v)

\* the next system of the main schedule (Startup, then Update tick after tick)
Schedule == load \/ handle_tasks \/ apply_deferred \/ save

\* weak fairness of load_task, its enabling condition written out (the task
\* can run exactly while it is Running)
WorkerFair ==
    \/ []<>(loadTask.state # "Running")
    \/ []<><<load_task>>_vars

\* the app keeps running its schedules, and the IoTaskPool worker runs the
\* load task to its end
LiveSpec ==
    /\ Init
    /\ [][RunNext]_vars
    /\ WF_vars(Schedule)
    /\ WorkerFair

---------------------------------------------------------------------------
(* The synchronous load of the wasm32 target                               *)

\* mutant of load_wasm: a record that fails to decode ends the load early,
\* nothing is inserted and the status is left alone
load_wasm_err_returns ==
    /\ pc = "Startup"
    /\ LET read == load_str(store)
           r == deserialize(read.text)
           failed == read.some /\ r.kind = "Err"
           val == IF read.some /\ r.kind = "Ok" THEN r.val ELSE DefaultPrefs
       IN  IF read.some /\ r.kind = "Panic"
           THEN /\ pc' = "crashed"
                /\ UNCHANGED <<fields, changed, loaded, appliedTick>>
           ELSE /\ pc' = "handle_tasks"
                /\ fields' = IF failed THEN fields ELSE val
                /\ changed' = [f \in FieldSet |-> TRUE]
                /\ loaded' = ~failed
                /\ appliedTick' = [applied |-> ~failed, some |-> read.some,
                                   text |-> read.text,
                                   old |-> read.some /\ ~store.fresh, val |-> val]
    /\ lastSave' = NoSave
    /\ UNCHANGED <<added, store, loadTask, saveTasks, newest, codec, multiVars>>

\* Prefs::load under cfg(target_arch = "wasm32") (Startup schedule): no
\* entity, no task: load_str, deserialize (an error gives the default, the
\* unwrap inside deserialize panics in the system itself), then every field
\* is inserted into the World and loaded is set, all within the system
load_wasm ==
    /\ pc = "Startup"
    /\ LET read == load_str(store)
           r == deserialize(read.text)
           val == IF read.some /\ r.kind = "Ok" THEN r.val ELSE DefaultPrefs
       IN  IF read.some /\ r.kind = "Panic"
           THEN /\ pc' = "crashed"
                /\ UNCHANGED <<fields, changed, loaded, appliedTick>>
           ELSE /\ pc' = "handle_tasks"
                /\ fields' = val
                /\ changed' = [f \in FieldSet |-> TRUE]
                /\ loaded' = TRUE
                /\ appliedTick' = [applied |-> TRUE, some |-> read.some,
                                   text |-> read.text,
                                   old |-> read.some /\ ~store.fresh, val |-> val]
    /\ lastSave' = NoSave
    /\ UNCHANGED <<added, store, loadTask, saveTasks, newest, codec, multiVars>>

\* one run of the application built for either target: Startup runs the
\* `load` the target compiles in
TargetNext ==
    \/ load_wasm
    \/ RunNext

TargetSpec == Init /\ [][TargetNext]_vars

---------------------------------------------------------------------------
(* Two PreferenceSets in one app (examples/multiple.rs), native target     *)

oneVars == <<pc, fields, changed, added, loaded, store, loadTask, saveTasks,
             appliedTick, lastSave, newest, codec>>

MultiInit ==
    /\ build(NoRecord)
    /\ codec = CodecIdle
    /\ \E cfg \in {ExampleSettings, DefaultSettings}, fs \in {NoFiles, OldFiles} :
          multi_build(cfg, fs)

\* the Startup schedule has run every set's `load`
StartupDone == \A T \in SetNames : tasks[T].state # "Idle"

\* Prefs::load of set T (Startup)
multi_load(T) ==
    /\ ~crashed /\ tasks[T].state = "Idle"
    /\ tasks' = [tasks EXCEPT ![T].state = "Running"]
    /\ UNCHANGED <<settings, resources, status, commands, files, detached, ran, crashed,
                   oneVars>>

\* the value T's load task yields: load_str on T's path, then deserialize
\* against T's registration (only a record `serialize` wrote for T decodes;
\* anything else is an error and gives the default)
MultiLoadVal(T) ==
    LET file == files[settings[T].path]
        hits == {v \in ValuesOf(T) : file.data = TypedRecord(T, v)}
    IN  IF file.present /\ hits # {} THEN CHOOSE v \in hits : TRUE ELSE DefaultOf(T)

\* the body of T's background load task
multi_load_task(T) ==
    /\ tasks[T].state = "Running"
    /\ tasks' = [tasks EXCEPT ![T] = [state |-> "Completed", val |-> MultiLoadVal(T)]]
    /\ UNCHANGED <<settings, resources, status, commands, files, detached, ran, crashed,
                   oneVars>>

\* the systems of the tick that have run once `sys` has: after the last one
\* the next tick begins
RanAfter(sys) == IF ran \cup {sys} = UpdateSystems THEN {} ELSE ran \cup {sys}

\* handle_tasks, the instance added by T's plugin: the query is over every
\* LoadPrefsTask, whichever set spawned it.  A finished task hands over its
\* command queue; a task that handed it over already, and whose entity no
\* sync point has despawned yet, is polled again: Task panics when polled
\* after completion
multi_handle_tasks(T) ==
    /\ ~crashed /\ StartupDone
    /\ <<"handle_tasks", T>> \notin ran
    /\ ran' = RanAfter(<<"handle_tasks", T>>)
    /\ crashed' = \E U \in SetNames : tasks[U].state = "Polled"
    /\ tasks' = [U \in SetNames |->
                    IF tasks[U].state = "Completed"
                    THEN [tasks[U] EXCEPT !.state = "Polled"] ELSE tasks[U]]
    /\ commands' = commands \cup {U \in SetNames : tasks[U].state = "Completed"}
    /\ UNCHANGED <<settings, resources, status, files, detached, oneVars>>

\* a sync point: the pending command queues run: insert_resource of the
\* set's field, loaded = true for the set, despawn of the set's entity
multi_apply_deferred ==
    /\ ~crashed /\ commands # {}
    /\ resources' = [T \in SetNames |->
                        IF T \in commands
                        THEN [resources[T] EXCEPT !.value = tasks[T].val, !.changed = TRUE]
                        ELSE resources[T]]
    /\ status' = [T \in SetNames |-> status[T] \/ T \in commands]
    /\ tasks' = [T \in SetNames |->
                    IF T \in commands THEN [tasks[T] EXCEPT !.state = "Applied"]
                    ELSE tasks[T]]
    /\ commands' = {}
    /\ UNCHANGED <<settings, files, detached, ran, crashed, oneVars>>

\* Prefs::save of set T, after its plugin's handle_tasks and the sync point;
\* with one field the early return is `!changed || added`
multi_save(T) ==
    /\ ~crashed /\ commands = {}
    /\ <<"handle_tasks", T>> \in ran /\ <<"save", T>> \notin ran
    /\ ran' = RanAfter(<<"save", T>>)
    /\ detached' =
          IF ~resources[T].changed \/ resources[T].added THEN detached
          ELSE detached (+) SetToBag({[set |-> T, snap |-> resources[T].value,
                                       path |-> settings[T].path]})
    /\ resources' = [resources EXCEPT ![T].changed = FALSE, ![T].added = FALSE]
    /\ UNCHANGED <<settings, status, tasks, commands, files, crashed, oneVars>>

\* the body of a detached save task: encode, then save_str on the path the
\* task took from its set's PrefsSettings
multi_save_task(t, ok) ==
    /\ BagIn(t, detached)
    /\ detached' = detached (-) SetToBag({t})
    /\ files' = IF ok
                THEN [files EXCEPT ![t.path] =
                         [present |-> TRUE, data |-> ReflectRecord(t.set, t.snap)]]
                ELSE files
    /\ UNCHANGED <<settings, resources, status, tasks, commands, ran, crashed, oneVars>>

\* a host system writing T's field through ResMut (toggle_enabled, print)
multi_host_mutation(T, v) ==
    /\ ~crashed /\ StartupDone
    /\ BagCardinality(detached) < MaxInFlight
    /\ resources' = [resources EXCEPT ![T].value = v, ![T].changed = TRUE]
    /\ UNCHANGED <<settings, status, tasks, commands, files, detached, ran, crashed,
                   oneVars>>

SaveTaskSet ==
    {[set |-> T, snap |-> v, path |-> p] :
        T \in SetNames, v \in {"false", "true", "0", "1"}, p \in PathSet}

MultiNext ==
    \/ \E T \in SetNames : multi_load(T)
    \/ \E T \in SetNames : multi_load_task(T)
    \/ \E T \in SetNames : multi_handle_tasks(T)
    \/ multi_apply_deferred
    \/ \E T \in SetNames : multi_save(T)
    \/ \E t \in SaveTaskSet, ok \in BOOLEAN : multi_save_task(t, ok)
    \/ \E T \in SetNames : \E v \in ValuesOf(T) : multi_host_mutation(T, v)

MultiSpec == MultiInit /\ [][MultiNext]_vars

---------------------------------------------------------------------------
(* The codec on its own: one value, or one record holding a subset of the *)
(* fields, is written and read back                                        *)

mainVars == <<pc, fields, changed, added, loaded, store, loadTask, saveTasks,
              appliedTick, lastSave, newest, multiVars>>

CodecInit ==
    /\ build(NoRecord)
    /\ multi_build(ExampleSettings, NoFiles)
    /\ \E v \in PrefsValues, p \in SUBSET FieldSet :
          codec = [CodecIdle EXCEPT !.stage = "input", !.value = v, !.present = p]

\* serialize is called on a whole value
codec_serialize ==
    /\ codec.stage = "input"
    /\ codec.present = FieldSet
    /\ codec' = [codec EXCEPT !.stage = "encoded", !.text = serialize(codec.value)]
    /\ UNCHANGED mainVars

\* a record that holds only some of the fields (written before the others
\* were added to the struct, or edited by hand)
codec_partial_record ==
    /\ codec.stage = "input"
    /\ codec.present # FieldSet
    /\ codec' = [codec EXCEPT !.stage = "encoded",
                   !.text = <<"(">> \o StructEntries(codec.value, codec.present, 1) \o <<")">>]
    /\ UNCHANGED mainVars

\* deserialize is called on the text
codec_deserialize ==
    /\ codec.stage = "encoded"
    /\ codec' = [codec EXCEPT !.stage = "decoded", !.result = deserialize(codec.text)]
    /\ UNCHANGED mainVars

CodecNext ==
    \/ codec_serialize
    \/ codec_partial_record
    \/ codec_deserialize

CodecSpec == CodecInit /\ [][CodecNext]_vars

---------------------------------------------------------------------------
(* Claims                                                                  *)

\* C1: restart round trip through the pipelines: when the load batch applied
\* in this run was decoded from a record that a save task of an earlier run
\* wrote for snapshot V, the batch holds V in every field and loaded is true.
C1_PipelineRoundTrip ==
    \A V \in PrefsValues :
        (appliedTick.applied /\ appliedTick.old
            /\ appliedTick.text = ReflectSerialize(V))
        => (appliedTick.val = V /\ loaded)

\* C2: a run of `save` (after its first run, so that "changed since the last
\* tick" has a last tick to refer to) that finds the changed flag of at least
\* one field set, in a tick where no load batch was applied, spawns a save
\* task, whichever field it is.
C2_ChangeSpawnsSave ==
    (lastSave.ran /\ ~lastSave.first /\ lastSave.changed # {} /\ ~lastSave.applied)
    => lastSave.spawned = 1

\* C3: the run of `save` in the tick in which the load batch was applied
\* spawns no save task, whenever the load task completed.
C3_NoSaveInLoadTick ==
    (lastSave.ran /\ lastSave.applied) => lastSave.spawned = 0

\* C4: whatever text is stored, the load task does not panic and the
\* application does not crash polling it.
C4_LoadNeverCrashes ==
    loadTask.state # "Panicked" /\ pc # "crashed"


\* C5: a missing record is not an error: the load task that finds no record
\* completes with the all-default value, and the step that applies its batch
\* leaves every field at its default and loaded true.
C5_AbsentLoadsDefaults ==
    [][ /\ (loadTask.state = "Running" /\ loadTask'.state # "Running" /\ pc' = pc
              /\ ~store.present)
           => (loadTask'.state = "Completed" /\ loadTask'.val = DefaultPrefs)
        /\ (loadTask.state = "Polled" /\ ~loadTask.some /\ appliedTick'.applied)
           => (fields' = DefaultPrefs /\ loaded')
      ]_vars

\* the batch of a load that found no record has just been applied
C5_Witness ==
    /\ appliedTick.applied /\ ~appliedTick.some
    /\ loadTask.state = "Applied"
    /\ fields = DefaultPrefs /\ loaded

\* C6: a run of `save` that finds no field's changed flag set spawns no save
\* task.
C6_NoChangeNoSave ==
    (lastSave.ran /\ lastSave.changed = {}) => lastSave.spawned = 0

\* `save` has just run in a tick without any change, with a record in place
C6_Witness ==
    /\ lastSave.ran /\ ~lastSave.first /\ lastSave.changed = {}
    /\ lastSave.spawned = 0
    /\ loaded /\ store.present /\ saveTasks = EmptyBag

C8_CodecRoundTrip ==
    (codec.stage = "decoded" /\ codec.present = FieldSet)
    => (codec.result.kind = "Ok" /\ codec.result.val = codec.value)

\* a value with no field at its default has been written and read back
C8_Witness ==
    /\ codec.stage = "decoded" /\ codec.present = FieldSet
    /\ codec.value = [volume |-> "60", difficulty |-> "Hard", enabled |-> "true"]
    /\ codec.result.val = codec.value

\* C9: default then overlay: a record holding a subset of the fields is
\* accepted, and the result has the record's value in every field the record
\* holds and the default in every other field.
C9_DefaultThenOverlay ==
    codec.stage = "decoded"
    => /\ codec.result.kind = "Ok"
       /\ \A f \in FieldSet :
            codec.result.val[f] =
                IF f \in codec.present THEN codec.value[f] ELSE DefaultValue(f)

\* a record holding only the middle field, not at its default, has been read
C9_Witness ==
    /\ codec.stage = "decoded" /\ codec.present = {"difficulty"}
    /\ codec.value["difficulty"] = "Hard"
    /\ codec.result.kind = "Ok"
    /\ codec.result.val = [volume |-> "50", difficulty |-> "Hard", enabled |-> "false"]

\* C10: loaded is false at registration; within a run it never goes back to
\* false, it is set only by the step that applies the load batch, and that
\* step does not happen again once the batch has been applied.
C10_LoadedMonotone ==
    /\ [](pc = "Startup" => ~loaded)
    /\ [][ pc' # "Startup"
           => /\ loaded => loaded'
              /\ (loaded' # loaded)
                 => (pc = "apply_deferred" /\ loadTask.state = "Polled"
                       /\ appliedTick'.applied)
              /\ (~appliedTick.applied /\ appliedTick'.applied) => ~loaded
         ]_vars

\* after the load was applied the host has written a field and `save` has
\* spawned a task: loaded is still true
C10_Witness ==
    /\ loaded /\ loadTask.state = "Applied"
    /\ lastSave.ran /\ ~lastSave.applied /\ lastSave.spawned = 1

\* C11: with the worker and the ticks running, loaded eventually becomes true
\* whatever the stored record is (absent, valid, partial or corrupt).
C11_EventuallyLoaded == <>loaded

\* a step in which the host writes one field and nothing else happens
HostStep ==
    /\ pc' = pc /\ loaded' = loaded /\ added' = added
    /\ loadTask' = loadTask /\ saveTasks' = saveTasks /\ store' = store
    /\ \E f \in FieldSet :
          /\ \A g \in FieldSet \ {f} : fields'[g] = fields[g] /\ changed'[g] = changed[g]
          /\ changed'[f]

\* a step in which one save task ends
SaveTaskStep ==
    /\ pc' = pc
    /\ \E snap \in DOMAIN saveTasks : saveTasks' = saveTasks (-) SetToBag({snap})

\* C12: the load batch is applied as a whole: loaded is true exactly when the
\* batch has been applied; a polled batch waits, unapplied, only between the
\* poll and the sync point of the same tick; and the sync point either
\* applies nothing, or writes every field from the batch, sets loaded and
\* removes the task in one step.
C12_AtomicLoad ==
    /\ [](loaded <=> loadTask.state = "Applied")
    /\ [](loadTask.state = "Polled" => pc = "apply_deferred")
    /\ [][ (pc = "apply_deferred" /\ pc' = "save")
           => \/ /\ loadTask.state = "Polled"
                 /\ fields' = loadTask.val
                 /\ \A f \in FieldSet : changed'[f]
                 /\ loaded' /\ loadTask'.state = "Applied"
              \/ /\ loadTask.state # "Polled"
                 /\ fields' = fields /\ loaded' = loaded /\ loadTask' = loadTask
         ]_vars

\* a record with no field at its default has been applied: all three fields
\* hold the loaded values and loaded is true
C12_Witness ==
    /\ appliedTick.applied /\ appliedTick.some
    /\ appliedTick.val = [volume |-> "60", difficulty |-> "Hard", enabled |-> "true"]
    /\ fields = appliedTick.val
    /\ loaded /\ loadTask.state = "Applied" /\ pc = "save"

\* C13: when `save` runs, no polled batch is waiting to be applied; and a save
\* task spawned in the tick in which the batch was applied, or in a later
\* tick, is spawned with loaded true and holds the fields as they are after
\* the batch was written.
C13_LoadBeforeSave ==
    [][ (pc = "save" /\ pc' = "handle_tasks")
        => /\ loadTask.state # "Polled"
           /\ appliedTick.applied => (loaded /\ loadTask.state = "Applied")
           /\ (saveTasks' # saveTasks /\ loadTask.state = "Applied")
              => (loaded /\ BagIn(fields, saveTasks')
                    /\ CopiesIn(fields, saveTasks') = CopiesIn(fields, saveTasks) + 1)
      ]_vars

\* `save` has run in the tick in which a record was applied, and the task it
\* spawned holds the loaded values
C13_Witness ==
    /\ lastSave.ran /\ lastSave.applied /\ lastSave.spawned = 1
    /\ loaded
    /\ fields = [volume |-> "60", difficulty |-> "Hard", enabled |-> "true"]
    /\ saveTasks = SetToBag({fields})

\* C15: a save task whose write fails just ends: the task is gone, no task is
\* spawned in its place, the schedule goes on where it was, and the fields,
\* their change flags, loaded, the load task and the stored record are as
\* before; a save task is spawned only by a run of `save` that does not take
\* its early return.
C15_FailedSaveDropped ==
    [][ /\ lastSave'.write = "failed"
           => /\ SaveTaskStep
              /\ UNCHANGED <<pc, fields, changed, added, loaded, loadTask, store>>
        /\ BagCardinality(saveTasks') > BagCardinality(saveTasks)
           => (pc = "save" /\ ~field_checks)
      ]_vars

\* the only save task has failed: the record found at startup is still in
\* place although the world has moved on
C15_Witness ==
    /\ lastSave.write = "failed" /\ saveTasks = EmptyBag
    /\ store = Record(serialize([volume |-> "60", difficulty |-> "Hard", enabled |-> "true"]))
    /\ loaded /\ fields["volume"] = "50" /\ pc # "crashed"

\* C16: a step of the load task or of a save task leaves the fields, their
\* change flags and loaded as they are; within a run the fields and loaded
\* change only by a host write or by the sync point applying a polled batch.
C16_TasksLeaveWorld ==
    [][ /\ ((loadTask.state = "Running" /\ loadTask'.state \in {"Completed", "Panicked"})
              \/ SaveTaskStep)
           => UNCHANGED <<fields, changed, added, loaded>>
        /\ ((fields' # fields \/ loaded' # loaded) /\ pc' # "Startup")
           => \/ HostStep
              \/ (pc = "apply_deferred" /\ loadTask.state = "Polled" /\ pc' = "save")
      ]_vars

\* the load task has completed with values that differ from the world's in
\* every field, and the world still holds the defaults
C16_Witness ==
    /\ loadTask.state = "Completed" /\ loadTask.some
    /\ loadTask.val = [volume |-> "60", difficulty |-> "Hard", enabled |-> "true"]
    /\ fields = DefaultPrefs /\ ~loaded

\* C17: the record changes only by one save task writing exactly the encoding
\* of its own snapshot; every save task whose write succeeds replaces the
\* record, whatever other tasks are in flight or have written, so the record
\* left is that of the task that wrote last.
C17_LastWriterWins ==
    [][ /\ (store' # store /\ pc' = pc)
           => \E snap \in DOMAIN saveTasks :
                 /\ saveTasks' = saveTasks (-) SetToBag({snap})
                 /\ store' = save_str(ReflectSerialize(snap))
        /\ (SaveTaskStep /\ lastSave'.write # "failed")
           => \E snap \in DOMAIN saveTasks :
                 /\ saveTasks' = saveTasks (-) SetToBag({snap})
                 /\ store' = save_str(ReflectSerialize(snap))
      ]_vars

\* two tasks were in flight; the one spawned last wrote first, the older one
\* wrote after it, and its record is the one left
C17_Witness ==
    /\ lastSave.write = "out_of_order" /\ saveTasks = EmptyBag
    /\ store.fresh
    /\ store.data = ReflectSerialize([volume |-> "60", difficulty |-> "Normal",
                                      enabled |-> "false"])
    /\ fields = DefaultPrefs /\ loaded

\* C18: at registration every field holds its default, loaded is false and
\* no load task exists; the load task is started once, by the Startup
\* schedule, and never again; and as long as loaded stays false the fields
\* change only by host writes.
C18_DefaultsAndOneLoad ==
    /\ [](pc = "Startup"
            => (fields = DefaultPrefs /\ ~loaded /\ loadTask.state = "Idle"))
    /\ [](pc # "Startup" => loadTask.state # "Idle")
    /\ [][ /\ (loadTask'.state = "Running" /\ loadTask.state # "Running")
              => (pc = "Startup" /\ loadTask.state = "Idle")
           /\ (~loaded' /\ pc' # "Startup" /\ fields' # fields) => HostStep
         ]_vars

\* ticks have gone by after the batch was applied; the task is gone and no
\* other has been started
C18_Witness ==
    /\ loadTask.state = "Applied" /\ loaded
    /\ lastSave.ran /\ ~lastSave.first /\ ~lastSave.applied
    /\ pc = "handle_tasks"

\* C19: the first run of `save` after registration spawns no save task,
\* although every field was just initialised (and whether or not the load
\* batch was applied before it); and the batch of a load that found no
\* record leaves every field at its default with loaded true.
C19_DefaultsAreNoEdit ==
    [][ /\ (pc = "save" /\ pc' = "handle_tasks" /\ \A f \in FieldSet : added[f])
           => saveTasks' = saveTasks
        /\ (pc = "apply_deferred" /\ pc' = "save" /\ loadTask.state = "Polled"
              /\ ~loadTask.some)
           => (fields' = DefaultPrefs /\ loaded')
      ]_vars

\* no record: the load was applied in the first tick, the first run of
\* `save` has spawned nothing and the fields hold the defaults
C19_Witness ==
    /\ lastSave.ran /\ lastSave.first /\ lastSave.applied /\ lastSave.spawned = 0
    /\ lastSave.changed = FieldSet
    /\ ~store.present /\ saveTasks = EmptyBag
    /\ fields = DefaultPrefs /\ loaded

\* C20: the load task moves only forward along Idle -> Running -> Completed
\* -> (polled, then in the same tick) Applied; handle_tasks never waits for
\* it and goes on to the sync point; and once the batch is applied the task
\* is gone for good: no later step touches it.
C20_LoadTaskLifecycle ==
    [][ pc' # "Startup"
        => /\ loadTask'.state # loadTask.state
              => <<loadTask.state, loadTask'.state>> \in
                    { <<"Idle", "Running">>, <<"Running", "Completed">>,
                      <<"Completed", "Polled">>, <<"Polled", "Applied">> }
           /\ (pc = "handle_tasks" /\ pc' # pc) => pc' = "apply_deferred"
           /\ loadTask.state = "Applied" => loadTask' = loadTask
      ]_vars

\* C14: with every plugin left at its default settings, a save task of one
\* set writes to a path that is not the path of another set and leaves the
\* other set's record as it is, and the application of one set's load batch
\* leaves the other set's field and status as they are.
C14_IndependentSets ==
    [][ settings = DefaultSettings
        => /\ \A t \in DOMAIN detached :
                 (detached' = detached (-) SetToBag({t}) /\ files' # files)
                 => \A T \in SetNames \ {t.set} :
                       /\ t.path # settings[T].path
                       /\ files'[settings[T].path] = files[settings[T].path]
           /\ \A S \in commands, T \in SetNames \ commands :
                 (status'[S] /\ ~status[S])
                 => (resources'[T] = resources[T] /\ status'[T] = status[T])
      ]_vars

\* C21: the synchronous load (wasm32) and the asynchronous pipeline agree at
\* the point the batch is applied: in either, the fields then hold what the
\* load closure yields for the content that was read, every field is marked
\* changed and loaded is true, and either crashes exactly on a content whose
\* decoding panics.  In the synchronous variant that point is the end of the
\* Startup step, with the content as it was at startup and no save task
\* spawned; loaded holds from then on; and the first run of `save` spawns no
\* save task.
C21_SyncEquivalent ==
    /\ []((loadTask.state = "Idle" /\ pc \notin {"Startup", "crashed"}) => loaded)
    /\ [][ /\ (~appliedTick.applied /\ appliedTick'.applied)
              => /\ loaded'
                 /\ fields' = LoadVal([some |-> appliedTick'.some,
                                       text |-> appliedTick'.text])
                 /\ \A f \in FieldSet : changed'[f]
           /\ (pc = "Startup" /\ pc' = "handle_tasks" /\ loadTask' = loadTask)
              => /\ loaded' /\ appliedTick'.applied
                 /\ appliedTick'.some = store.present
                 /\ appliedTick'.some => appliedTick'.text = store.data
                 /\ saveTasks' = EmptyBag
           /\ (pc = "Startup" /\ pc' = "crashed")
              => (store.present /\ deserialize(store.data).kind = "Panic")
           /\ (pc = "handle_tasks" /\ pc' = "crashed")
              => (loadTask.some /\ deserialize(loadTask.text).kind = "Panic")
           /\ (pc = "save" /\ pc' = "handle_tasks" /\ loadTask.state = "Idle"
                 /\ \A f \in FieldSet : added[f])
              => saveTasks' = saveTasks
         ]_vars

\* synchronous variant, a record with no field at its default: the first
\* run of `save` has found the loaded values in place and has spawned nothing
C21_Witness ==
    /\ loadTask.state = "Idle" /\ loaded
    /\ lastSave.ran /\ lastSave.first /\ lastSave.applied /\ lastSave.spawned = 0
    /\ fields = [volume |-> "60", difficulty |-> "Hard", enabled |-> "true"]
    /\ store.present /\ saveTasks = EmptyBag

\* C22: with two PreferenceSets, whichever instance of handle_tasks polls and
\* whenever the tasks complete, no load task that has handed over its
\* command queue is polled again (the poll of such a task panics), and each
\* set's batch is applied exactly once: a set's status flips only as its
\* polled batch is applied, and an applied task is never touched again.
C22_PolledOnce ==
    [][ /\ ~crashed'
        /\ \A T \in SetNames :
              /\ (status'[T] # status[T])
                 => (tasks[T].state = "Polled" /\ tasks'[T].state = "Applied"
                       /\ status'[T])
              /\ tasks[T].state = "Applied" => tasks'[T] = tasks[T]
      ]_vars

\* C23: a save task is spawned only while loaded is true, so a host write
\* made before the batch is applied is never snapshotted; and the record is
\* not written while the load task has yet to read it.
C23_NoSaveBeforeLoad ==
    [][ /\ BagCardinality(saveTasks') > BagCardinality(saveTasks) => loaded
        /\ (store' # store /\ pc' = pc) => loadTask.state # "Running"
      ]_vars

\* field f holds v by a host write that no run of `save` has seen yet and
\* that the load batch has not overwritten: the batch was applied before the
\* write (in this tick, and f differs from the batch; or in an earlier tick,
\* and f is changed since the last run of `save`)
HostWrote(f, v) ==
    /\ loaded /\ fields[f] = v /\ changed[f]
    /\ appliedTick.applied => v # appliedTick.val[f]

\* `save` has just spawned a task, whose snapshot holds v in field f
Snapshotted(f, v) ==
    lastSave.ran /\ lastSave.spawned = 1 /\ fields[f] = v

\* C24: while the ticks keep running, a value the host has written to a
\* field, and that the load batch does not overwrite (every write made
\* before the batch is applied is overwritten by it), is eventually held by
\* the snapshot of a newly spawned save task, unless the field is written
\* again first: whatever the tick of the write was.
C24_EveryMutationSaved ==
    \A f \in FieldSet : \A v \in FieldValues(f) :
        HostWrote(f, v) ~> (Snapshotted(f, v) \/ fields[f] # v \/ pc = "crashed")

\* C25: the step that applies the load batch leaves every field at the value
\* decoded from the record the load task read, or at its default when there
\* was no record or it did not decode, whatever the fields held before, host
\* writes made while loaded was false included.
C25_LoadOverwrites ==
    [][ (pc = "apply_deferred" /\ loadTask.state = "Polled" /\ pc' = "save")
        => /\ loaded'
           /\ fields' = IF loadTask.some /\ deserialize(loadTask.text).kind = "Ok"
                        THEN deserialize(loadTask.text).val
                        ELSE DefaultPrefs
      ]_vars

\* no record: the host wrote `volume` while loaded was false (the save task
\* spawned then still holds 60), and the batch has just put the default back
C25_Witness ==
    /\ appliedTick.applied /\ ~appliedTick.some /\ pc = "save"
    /\ saveTasks = SetToBag({[volume |-> "60", difficulty |-> "Normal",
                              enabled |-> "false"]})
    /\ fields = DefaultPrefs /\ loaded

===========================================================================
